---- MODULE Spec2Model ----
(***************************************************************************)
(* A model of benchq's single-factorized QPE resource estimate             *)
(* (src/benchq/resource_estimation/openfermion_re.py) and of the testing   *)
(* utilities of tests/benchq/compilation/test_graph_sim_mini.py: get_icm,  *)
(* get_target_tableau, get_stabilizer_tableau_from_vertices, the tableau   *)
(* comparison helper, commutes and _bool_dot.                              *)
(*                                                                         *)
(* Each function is a small state machine of its own.  The module has one  *)
(* specification per function under study; a specification keeps the       *)
(* variables of the other functions at their idle values.                  *)
(***************************************************************************)
EXTENDS Integers, Sequences, FiniteSets, TLC

VARIABLES
    \* get_single_factorized_qpe_resource_estimate
    eri,                    \* the electron-repulsion tensor, [Idx -> Int], in units of 1e-9
    pcE,                    \* position in the function
    calls,                  \* the library calls made so far, in order
    cost,                   \* the CostEstimate returned by cost_estimator
    resource_info,          \* <<>> until the function returns, then <<the resource info>>
    \* commutes
    stab_1, stab_2,         \* two rows [x bits | z bits]
    commResult,             \* the results of commutes on (1,2), (2,1) and (1,1)
    pcC,
    \* assert_tableaus_correspond_to_the_same_stabilizer_state, check_tableau_entries_commute
    tableau_1, tableau_2,   \* sequences of rows
    helperOutcome,          \* "passed" or "AssertionError"
    checkResult,            \* the value check_tableau_entries_commute returned
    pcT,
    \* get_icm and get_target_tableau
    circuit,                \* the input circuit: a sequence of [gate, qubits]
    defaulted,              \* TRUE when get_icm is called without gates_to_decompose
    gates_to_decompose,
    compiled_qubit_index,
    compiled_qubits,
    icm_circuit,
    icm_circuit_n_qubits,
    opi,                    \* position of the loop over circuit.operations (1-based)
    qi,                     \* position of the inner loop over op.qubit_indices (1-based)
    pcI,
    remaps,                 \* history: every ancilla allocation, in order
    emitted_from,           \* history: for each emitted operation, the input operation and argument it came from
    sim,                    \* the gates applied to the stim.TableauSimulator, in order
    pcG,
    \* get_stabilizer_tableau_from_vertices
    vertices,               \* the input: a sequence of [code, adj], vertex ids 0-based
    all_xs, all_zs,         \* boolean matrices, rows and columns 1-based here
    cliffords,              \* the list of Clifford sequences built by the first loop
    vsim,                   \* the gates applied to the simulator, in order
    pcV,
    \* _bool_dot
    dot_x, dot_y,           \* the two boolean arrays
    dotOutcome,             \* "returned" or "IndexError"
    dotResult,              \* the value returned
    pcD

varsE == <<eri, pcE, calls, cost, resource_info>>
varsC == <<stab_1, stab_2, commResult, pcC>>
varsT == <<tableau_1, tableau_2, helperOutcome, checkResult, pcT>>
varsI == <<defaulted, gates_to_decompose, compiled_qubit_index, compiled_qubits,
           icm_circuit, icm_circuit_n_qubits, qi, pcI, remaps, emitted_from>>
varsG == <<sim, pcG>>
varsV == <<vertices, all_xs, all_zs, cliffords, vsim, pcV>>
varsD == <<dot_x, dot_y, dotOutcome, dotResult, pcD>>
vars == <<varsE, varsC, varsT, varsI, varsG, varsV, varsD, circuit, opi>>

\* what each function leaves alone: the variables of the other functions
othersE == <<varsC, varsT, varsI, varsG, varsV, varsD, circuit, opi>>
othersC == <<varsE, varsT, varsI, varsG, varsV, varsD, circuit, opi>>
othersT == <<varsE, varsC, varsI, varsG, varsV, varsD, circuit, opi>>
othersI == <<varsE, varsC, varsT, varsG, varsV, varsD>>
othersG == <<varsE, varsC, varsT, varsI, varsV, varsD>>
othersV == <<varsE, varsC, varsT, varsI, varsG, varsD, circuit, opi>>
othersD == <<varsE, varsC, varsT, varsI, varsG, varsV, circuit, opi>>

\* ---------------------------------------------------------------- bounds
NOrb == 2               \* number of spatial orbitals of the eri tensor
MaxDays == 1            \* largest day count of a cost estimate's duration
MaxStabQubits == 2      \* rows given to commutes have up to 2 * MaxStabQubits bits
MaxTableauQubits == 2   \* tableaus have up to MaxTableauQubits rows
NQubits == 2            \* circuits act on qubits 0 .. NQubits - 1
MaxOps == 2             \* longest input circuit
MaxVertices == 2        \* longest vertex list
MaxDotLen == 3          \* longest array given to _bool_dot

\* ---------------------------------------------------------------- helpers
Abs(x) == IF x < 0 THEN -x ELSE x

Range(s) == {s[i] : i \in DOMAIN s}

SeqsUpTo(S, n) == UNION {[1..k -> S] : k \in 0..n}

Max(S) == CHOOSE x \in S : \A y \in S : y <= x

\* ---------------------------------------------------------------- idle values
IdleE == eri = <<>> /\ pcE = "idle" /\ calls = <<>> /\ cost = <<>> /\ resource_info = <<>>
IdleC == stab_1 = <<>> /\ stab_2 = <<>> /\ commResult = <<>> /\ pcC = "idle"
IdleT == tableau_1 = <<>> /\ tableau_2 = <<>> /\ helperOutcome = "none"
         /\ checkResult = FALSE /\ pcT = "idle"
IdleI == defaulted = FALSE /\ gates_to_decompose = {} /\ compiled_qubit_index = <<>>
         /\ compiled_qubits = <<>> /\ icm_circuit = <<>> /\ icm_circuit_n_qubits = 0
         /\ qi = 0 /\ pcI = "idle" /\ remaps = <<>> /\ emitted_from = <<>>
IdleG == sim = <<>> /\ pcG = "idle"
IdleCircuit == circuit = <<>> /\ opi = 0
IdleV == vertices = <<>> /\ all_xs = <<>> /\ all_zs = <<>> /\ cliffords = <<>>
         /\ vsim = <<>> /\ pcV = "idle"
IdleD == dot_x = <<>> /\ dot_y = <<>> /\ dotOutcome = "none" /\ dotResult = FALSE /\ pcD = "idle"

(***************************************************************************)
(* get_single_factorized_qpe_resource_estimate                             *)
(***************************************************************************)
Orb == 0..(NOrb - 1)
Idx == Orb \X Orb \X Orb \X Orb

\* Tensor entries are integers in units of 1e-9, so that numpy's default
\* tolerances are whole numbers: atol = 1e-8 is 10 units, rtol = 1e-5 is 1/100000.
ATol == 10
RTolInv == 100000
EriNonzero == {5, 20, 2000000, 2000020}

\* The tensors tried: all zero except for at most two entries, v at a and w at b.
EriWith(a, v, b, w) == [i \in Idx |-> IF i = a THEN v ELSE IF i = b THEN w ELSE 0]

\* np.transpose(eri, (2, 3, 0, 1)): axis m of the result is axis axes[m] of eri
\* (variant: the tensor is compared with itself)
TransposeIdentity(e) == e
Transpose(e) == [i \in Idx |-> e[<<i[3], i[4], i[1], i[2]>>]]

\* np.isclose(a, b): |a - b| <= atol + rtol * |b|.  For whole numbers of units
\* this is |a - b| <= atol + floor(|b| / 100000).
IsClose(a, b) == Abs(a - b) <= ATol + (Abs(b) \div RTolInv)
AllClose(a, b) == \A i \in Idx : IsClose(a[i], b[i])

\* a datetime.timedelta, normalised as Python keeps it
SecondsPerDay == 86400
Durations == [days : 0..MaxDays, seconds : {5, SecondsPerDay - 1}, microseconds : {0}]
CostEstimates == [duration : Durations, physical_qubit_count : {1000}]

InitE ==
    /\ \E a \in Idx, b \in Idx, v \in EriNonzero \cup {0}, w \in EriNonzero \cup {0} :
          eri = EriWith(a, v, b, w)
    /\ pcE = "check" /\ calls = <<>> /\ cost = <<>> /\ resource_info = <<>>

\* lines 93-94
CheckSymmetry ==
    /\ pcE = "check"
    /\ pcE' = IF ~AllClose(Transpose(eri), eri) THEN "ValueError" ELSE "toffoli_and_qubit_cost"
    /\ UNCHANGED <<eri, calls, cost, resource_info>>
    /\ UNCHANGED othersE

\* lines 96-103, the body of get_single_factorized_qpe_toffoli_and_qubit_cost
ToffoliAndQubitCost ==
    /\ pcE = "toffoli_and_qubit_cost"
    /\ calls' = calls \o <<"sf.factorize", "compute_lambda", "sf.compute_cost", "sf.compute_cost">>
    /\ pcE' = "cost_estimator"
    /\ UNCHANGED <<eri, cost, resource_info>>
    /\ UNCHANGED othersE

\* lines 106-112
CostEstimator ==
    /\ pcE = "cost_estimator"
    /\ \E c \in CostEstimates : cost' = c
    /\ calls' = Append(calls, "cost_estimator")
    /\ pcE' = "to_resource_info"
    /\ UNCHANGED <<eri, resource_info>>
    /\ UNCHANGED othersE

\* timedelta.seconds: the seconds field of the normalised duration
TimedeltaSeconds(d) == d.seconds

\* _openfermion_result_to_resource_info
OpenfermionResultToResourceInfo(c) ==
    [n_physical_qubits |-> c.physical_qubit_count,
     total_time_in_seconds |-> TimedeltaSeconds(c.duration)]

\* line 114
ReturnResourceInfo ==
    /\ pcE = "to_resource_info"
    /\ resource_info' = <<OpenfermionResultToResourceInfo(cost)>>
    /\ pcE' = "returned"
    /\ UNCHANGED <<eri, calls, cost>>
    /\ UNCHANGED othersE

NextE ==
    \/ CheckSymmetry
    \/ ToffoliAndQubitCost
    \/ CostEstimator
    \/ ReturnResourceInfo

InitEstimate == InitE /\ IdleC /\ IdleT /\ IdleI /\ IdleG /\ IdleCircuit /\ IdleV /\ IdleD

SpecEstimate ==
    InitEstimate /\ [][NextE]_vars

\* Some entry differs from its (2,3,0,1) counterpart.
EriAsymmetric == \E i \in Orb, j \in Orb, k \in Orb, l \in Orb : eri[<<i, j, k, l>>] # eri[<<k, l, i, j>>]

\* Some entry differs from its counterpart by more than 1e-8 + 1e-5 * |entry|.
EriOutOfTolerance ==
    \E i \in Orb, j \in Orb, k \in Orb, l \in Orb :
        Abs(eri[<<k, l, i, j>>] - eri[<<i, j, k, l>>]) > 10 + (Abs(eri[<<i, j, k, l>>]) \div 100000)

CostingCalls == <<"sf.factorize", "compute_lambda", "sf.compute_cost", "sf.compute_cost">>

\* C1 as stated: any difference between eri and its (2,3,0,1) transpose raises
\* ValueError, before any library call and without a resource info.
C1_Original ==
    (pcE # "check" /\ EriAsymmetric) =>
        (pcE = "ValueError" /\ calls = <<>> /\ resource_info = <<>>)

\* C1, amended: ValueError is raised exactly when some entry differs from its
\* (2,3,0,1) counterpart by more than numpy's tolerance 1e-8 + 1e-5 * |entry|;
\* it is raised before any library call and no resource info is returned;
\* otherwise the costing calls are made.
C1_Theorem ==
    /\ pcE # "check" => ((pcE = "ValueError") <=> EriOutOfTolerance)
    /\ pcE = "ValueError" => (calls = <<>> /\ cost = <<>> /\ resource_info = <<>>)
    /\ pcE \in {"cost_estimator", "to_resource_info", "returned"} =>
           (~EriOutOfTolerance /\ SubSeq(calls, 1, 4) = CostingCalls)

\* a tensor that is unequal to its transpose but within tolerance went on to the costing
C1_WitnessPass == pcE = "returned" /\ EriAsymmetric /\ Len(calls) = 5
C1_Witness == pcE = "ValueError" /\ EriOutOfTolerance

\* C7: total_time_in_seconds is the whole duration in (whole) seconds.
C7_Claim ==
    pcE = "returned" =>
        resource_info[1].total_time_in_seconds
            = cost.duration.days * 86400 + cost.duration.seconds

(***************************************************************************)
(* commutes and _bool_dot                                                  *)
(***************************************************************************)
Xor(a, b) == a # b

\* the loop of _bool_dot: ans = xor(ans, array_and[i]) for the entries from i on
RECURSIVE XorFold(_, _, _)
XorFold(array_and, i, ans) ==
    IF i > Len(array_and) THEN ans
    ELSE XorFold(array_and, i + 1, Xor(ans, array_and[i]))

\* (variant: numpy's own boolean dot product, with "or" for addition)
BoolDotOr(x, y) == \E i \in DOMAIN x : x[i] /\ y[i]

\* _bool_dot, for arrays of one entry or more
BoolDot(x, y) ==
    LET array_and == [i \in DOMAIN x |-> x[i] /\ y[i]]
    IN  XorFold(array_and, 2, array_and[1])

\* commutes(stab_1, stab_2)
Commutes(s1, s2) ==
    LET n_qubits == Len(s1) \div 2
        comm1 == BoolDot(SubSeq(s1, 1, n_qubits), SubSeq(s2, n_qubits + 1, Len(s2)))
        comm2 == BoolDot(SubSeq(s1, n_qubits + 1, Len(s1)), SubSeq(s2, 1, n_qubits))
    IN  ~Xor(comm1, comm2)

StabRows(n) == [1..(2 * n) -> BOOLEAN]

InitC ==
    /\ \E n \in 1..MaxStabQubits : stab_1 \in StabRows(n) /\ stab_2 \in StabRows(n)
    /\ commResult = <<>>
    /\ pcC = "input"

\* commutes is called on the two rows, in both orders, and on the first row with itself
CallCommutes ==
    /\ pcC = "input"
    /\ commResult' = [ab |-> Commutes(stab_1, stab_2),
                      ba |-> Commutes(stab_2, stab_1),
                      aa |-> Commutes(stab_1, stab_1)]
    /\ pcC' = "done"
    /\ UNCHANGED <<stab_1, stab_2>>
    /\ UNCHANGED othersC

NextC ==
    \/ CallCommutes

InitCommutes == InitC /\ IdleE /\ IdleT /\ IdleI /\ IdleG /\ IdleCircuit /\ IdleV /\ IdleD

SpecCommutes ==
    InitCommutes /\ [][NextC]_vars

\* the symplectic product of two rows: sum over k of x1[k]*z2[k] + z1[k]*x2[k]
Bit(b) == IF b THEN 1 ELSE 0

RECURSIVE SymplecticSum(_, _, _)
SymplecticSum(r1, r2, k) ==
    IF k = 0 THEN 0
    ELSE LET n == Len(r1) \div 2
         IN  Bit(r1[k]) * Bit(r2[n + k]) + Bit(r1[n + k]) * Bit(r2[k])
                 + SymplecticSum(r1, r2, k - 1)

SymplecticProduct(r1, r2) == SymplecticSum(r1, r2, Len(r1) \div 2)

PaulisCommute(r1, r2) == SymplecticProduct(r1, r2) % 2 = 0

\* C4: commutes returns True exactly when the symplectic product of the two
\* rows is even; it is symmetric in its arguments and every row commutes with itself.
C4_Theorem ==
    pcC = "done" =>
        /\ commResult.ab = PaulisCommute(stab_1, stab_2)
        /\ commResult.ab = commResult.ba
        /\ commResult.aa = TRUE

\* two rows of two qubits that anticommute on both qubits, and so commute
C4_Witness ==
    /\ pcC = "done" /\ Len(stab_1) = 4
    /\ SymplecticProduct(stab_1, stab_2) = 2
    /\ commResult.ab = TRUE

(***************************************************************************)
(* assert_tableaus_correspond_to_the_same_stabilizer_state and             *)
(* check_tableau_entries_commute                                           *)
(***************************************************************************)
Tableaus(n) == [1..n -> StabRows(n)]

\* the sorted sequence of a set of integers
RECURSIVE SortedSeq(_)
SortedSeq(S) == IF S = {} THEN <<>> ELSE LET m == Max(S) IN Append(SortedSeq(S \ {m}), m)

RemoveAt(s, j) == SubSeq(s, 1, j - 1) \o SubSeq(s, j + 1, Len(s))

Sign(j) == IF j % 2 = 1 THEN 1 ELSE -1

\* determinant of the minor of M on the given rows and columns (Laplace expansion)
RECURSIVE Det(_, _, _)
RECURSIVE DetSum(_, _, _, _)
DetSum(M, rows, cols, j) ==
    IF j = 0 THEN 0
    ELSE Sign(j) * Bit(M[rows[1]][cols[j]]) * Det(M, Tail(rows), RemoveAt(cols, j))
             + DetSum(M, rows, cols, j - 1)
Det(M, rows, cols) == IF rows = <<>> THEN 1 ELSE DetSum(M, rows, cols, Len(cols))

\* np.linalg.matrix_rank of a 0/1 matrix: the size of its largest nonzero minor
MatrixRank(M) ==
    LET nrows == Len(M)
        ncols == IF nrows = 0 THEN 0 ELSE Len(M[1])
        sizes == {k \in 0..nrows :
                    \E R \in SUBSET (1..nrows), C \in SUBSET (1..ncols) :
                        /\ Cardinality(R) = k /\ Cardinality(C) = k
                        /\ Det(M, SortedSeq(R), SortedSeq(C)) # 0}
    IN  Max(sizes)

\* tableau.shape of an array of rows
Shape(t) == <<Len(t), IF Len(t) = 0 THEN 0 ELSE Len(t[1])>>

\* the inner loop of check_tableau_entries_commute: j in range(i, n_qubits)
\* (rows are 0-based in the code and 1-based here)
RECURSIVE CheckFrom(_, _, _, _, _)
CheckFrom(t1, t2, n_qubits, i, j) ==
    IF i >= n_qubits THEN TRUE
    ELSE IF j >= n_qubits THEN CheckFrom(t1, t2, n_qubits, i + 1, i + 1)
    ELSE IF ~Commutes(t1[i + 1], t2[j + 1]) THEN FALSE
    ELSE CheckFrom(t1, t2, n_qubits, i, j + 1)

\* check_tableau_entries_commute
CheckTableauEntriesCommute(t1, t2) ==
    LET n_qubits == Len(t1) \div 2
    IN  CheckFrom(t1, t2, n_qubits, 0, 0)

\* assert_tableaus_correspond_to_the_same_stabilizer_state.  Its second assert
\* states the function object check_tableau_entries_commute, which is truthy.
AssertTableausCorrespond(t1, t2) ==
    LET n_qubits == Len(t2)
        check_tableau_entries_commute_object == TRUE
    IN  IF Shape(t1) # Shape(t2) THEN "AssertionError"
        ELSE IF ~check_tableau_entries_commute_object THEN "AssertionError"
        ELSE IF MatrixRank(t1) # n_qubits THEN "AssertionError"
        ELSE IF MatrixRank(t2) # n_qubits THEN "AssertionError"
        ELSE "passed"

InitT ==
    /\ \E n1 \in 1..MaxTableauQubits, n2 \in 1..MaxTableauQubits :
          tableau_1 \in Tableaus(n1) /\ tableau_2 \in Tableaus(n2)
    /\ helperOutcome = "none"
    /\ checkResult = FALSE
    /\ pcT = "input"

CallAssertTableaus ==
    /\ pcT = "input"
    /\ helperOutcome' = AssertTableausCorrespond(tableau_1, tableau_2)
    /\ pcT' = "asserted"
    /\ UNCHANGED <<tableau_1, tableau_2, checkResult>>
    /\ UNCHANGED othersT

CallCheckTableauEntriesCommute ==
    /\ pcT = "input"
    /\ Shape(tableau_1) = Shape(tableau_2)
    /\ checkResult' = CheckTableauEntriesCommute(tableau_1, tableau_2)
    /\ pcT' = "checked"
    /\ UNCHANGED <<tableau_1, tableau_2, helperOutcome>>
    /\ UNCHANGED othersT

NextT ==
    \/ CallAssertTableaus
    \/ CallCheckTableauEntriesCommute

InitTableau == InitT /\ IdleE /\ IdleC /\ IdleI /\ IdleG /\ IdleCircuit /\ IdleV /\ IdleD

SpecTableau ==
    InitTableau /\ [][NextT]_vars

AllRowsCommute(t1, t2) ==
    \A i \in DOMAIN t1, j \in DOMAIN t2 : PaulisCommute(t1[i], t2[j])

\* C2: for two tableaus of equal shape and full rank, the helper raises an
\* assertion error whenever some row of tableau_1 anticommutes with some row
\* of tableau_2, and passes only when all rows mutually commute.
C2_Claim ==
    (/\ pcT = "asserted"
     /\ Shape(tableau_1) = Shape(tableau_2)
     /\ MatrixRank(tableau_1) = Len(tableau_1)
     /\ MatrixRank(tableau_2) = Len(tableau_2)) =>
        /\ ~AllRowsCommute(tableau_1, tableau_2) => helperOutcome = "AssertionError"
        /\ helperOutcome = "passed" => AllRowsCommute(tableau_1, tableau_2)

\* C3: check_tableau_entries_commute returns True exactly when every row of
\* tableau_1 commutes with every row of tableau_2.
C3_Claim ==
    pcT = "checked" => (checkResult = AllRowsCommute(tableau_1, tableau_2))

(***************************************************************************)
(* get_icm                                                                 *)
(***************************************************************************)
Qubits == 0..(NQubits - 1)

Op(g, qs) == [gate |-> g, qubits |-> qs]

IcmOneQubitGates == {"H", "T", "T_Dagger", "RZ", "RESET"}

IcmOps ==
    {Op(g, <<q>>) : g \in IcmOneQubitGates, q \in Qubits}
        \cup {Op("CNOT", <<p[1], p[2]>>) : p \in {x \in Qubits \X Qubits : x[1] # x[2]}}

\* the default value of the parameter gates_to_decompose
DefaultGatesToDecompose == {"T", "T_Dagger", "RZ"}

\* the values given to gates_to_decompose when the caller passes it
ExplicitGatesToDecompose == {{"T", "T_Dagger"}, {"CNOT"}, {"H", "RESET"}}

\* Circuit.n_qubits of a circuit built from its operations: one more than the largest index
NQubitsOf(c) ==
    LET used == UNION {Range(c[i].qubits) : i \in DOMAIN c}
    IN  IF used = {} THEN 0 ELSE Max(used) + 1

\* line 159: op.gate.name in gates_to_decompose
\* (variant: T_Dagger is never decomposed)
IsDecomposedExceptDagger(op, gates) == op.gate \in gates \ {"T_Dagger"}
IsDecomposed(op, gates) == op.gate \in gates

\* lines 155-157: [compiled_qubit_index.get(qubit, qubit) for qubit in op.qubit_indices]
\* (variant: the original indices are used)
CompiledQubitsStale(op, index) == op.qubits
CompiledQubits(op, index) ==
    [j \in DOMAIN op.qubits |->
        IF op.qubits[j] \in DOMAIN index THEN index[op.qubits[j]] ELSE op.qubits[j]]

\* lines 163 and 170: icm_circuit_n_qubits += 1
\* (variant: the counter is not incremented)
NextAncillaSame(n) == n
NextAncilla(n) == n + 1

InitI ==
    /\ circuit \in SeqsUpTo(IcmOps, MaxOps)
    /\ defaulted \in BOOLEAN
    /\ IF defaulted THEN gates_to_decompose = DefaultGatesToDecompose
                    ELSE gates_to_decompose \in ExplicitGatesToDecompose
    \* lines 151-153
    /\ compiled_qubit_index = [i \in 0..(NQubitsOf(circuit) - 1) |-> i]
    /\ icm_circuit = <<>>
    /\ icm_circuit_n_qubits = NQubitsOf(circuit) - 1
    /\ opi = 1 /\ qi = 0 /\ compiled_qubits = <<>>
    /\ pcI = "loop"
    /\ remaps = <<>> /\ emitted_from = <<>>

\* lines 154-159, 166, 172: take the next operation and choose its branch
BeginOp ==
    /\ pcI = "loop" /\ opi <= Len(circuit)
    /\ compiled_qubits' = CompiledQubits(circuit[opi], compiled_qubit_index)
    /\ pcI' = IF IsDecomposed(circuit[opi], gates_to_decompose) THEN "decompose"
              ELSE IF circuit[opi].gate = "RESET" THEN "reset"
              ELSE "emit"
    /\ qi' = 1
    /\ UNCHANGED <<circuit, opi, defaulted, gates_to_decompose, compiled_qubit_index,
                   icm_circuit, icm_circuit_n_qubits, remaps, emitted_from>>
    /\ UNCHANGED othersI

\* the end of one pass of an inner loop over zip(op.qubit_indices, compiled_qubits)
AdvanceInner ==
    IF qi < Len(circuit[opi].qubits)
    THEN qi' = qi + 1 /\ pcI' = pcI /\ opi' = opi
    ELSE qi' = 0 /\ pcI' = "loop" /\ opi' = opi + 1

Remap(original_qubit, ancilla, emitted) ==
    [qubit |-> original_qubit, old |-> compiled_qubit_index[original_qubit], new |-> ancilla,
     before |-> Len(icm_circuit), at |-> Len(icm_circuit) + emitted]

\* lines 160-165: one pass of the loop of a decomposed gate
DecomposeQubit ==
    /\ pcI = "decompose"
    /\ LET original_qubit == circuit[opi].qubits[qi]
           compiled_qubit == compiled_qubits[qi]
           ancilla == NextAncilla(icm_circuit_n_qubits)
       IN  /\ icm_circuit_n_qubits' = ancilla
           /\ compiled_qubit_index' = [compiled_qubit_index EXCEPT ![original_qubit] = ancilla]
           /\ icm_circuit' = Append(icm_circuit, Op("CNOT", <<compiled_qubit, ancilla>>))
           /\ remaps' = Append(remaps, Remap(original_qubit, ancilla, 1))
           /\ emitted_from' = Append(emitted_from, [op |-> opi, arg |-> qi])
    /\ AdvanceInner
    /\ UNCHANGED <<circuit, defaulted, gates_to_decompose, compiled_qubits>>
    /\ UNCHANGED othersI

\* lines 166-171: one pass of the loop of a RESET
ResetQubit ==
    /\ pcI = "reset"
    /\ LET original_qubit == circuit[opi].qubits[qi]
           ancilla == NextAncilla(icm_circuit_n_qubits)
       IN  /\ icm_circuit_n_qubits' = ancilla
           /\ compiled_qubit_index' = [compiled_qubit_index EXCEPT ![original_qubit] = ancilla]
           /\ remaps' = Append(remaps, Remap(original_qubit, ancilla, 0))
    /\ AdvanceInner
    /\ UNCHANGED <<circuit, defaulted, gates_to_decompose, compiled_qubits, icm_circuit,
                   emitted_from>>
    /\ UNCHANGED othersI

\* lines 172-175: any other gate, on the compiled indices of its qubits
EmitOp ==
    /\ pcI = "emit"
    /\ LET op == circuit[opi]
       IN  icm_circuit' = Append(icm_circuit,
               Op(op.gate, [j \in DOMAIN op.qubits |-> compiled_qubit_index[op.qubits[j]]]))
    /\ emitted_from' = Append(emitted_from, [op |-> opi, arg |-> 0])
    /\ opi' = opi + 1 /\ qi' = 0 /\ pcI' = "loop"
    /\ UNCHANGED <<circuit, defaulted, gates_to_decompose, compiled_qubit_index,
                   compiled_qubits, icm_circuit_n_qubits, remaps>>
    /\ UNCHANGED othersI

\* line 177
ReturnIcm ==
    /\ pcI = "loop" /\ opi > Len(circuit)
    /\ pcI' = "returned"
    /\ UNCHANGED <<circuit, opi, defaulted, gates_to_decompose, compiled_qubit_index,
                   compiled_qubits, icm_circuit, icm_circuit_n_qubits, qi, remaps, emitted_from>>
    /\ UNCHANGED othersI

NextI ==
    \/ BeginOp
    \/ DecomposeQubit
    \/ ResetQubit
    \/ EmitOp
    \/ ReturnIcm

InitICM == InitI /\ IdleE /\ IdleC /\ IdleT /\ IdleG /\ IdleV /\ IdleD

SpecICM ==
    InitICM /\ [][NextI]_vars

\* the compiled index original qubit q has when output position k is emitted:
\* the ancilla of its last allocation made before that, or q itself
NewestAt(q, k) ==
    LET rs == {m \in DOMAIN remaps : remaps[m].qubit = q /\ remaps[m].at < k}
    IN  IF rs = {} THEN q ELSE remaps[Max(rs)].new

\* the output positions that came from argument j of input operation i
\* (j = 0: the operation was emitted whole)
EmittedFor(i, j) == {k \in DOMAIN emitted_from : emitted_from[k] = [op |-> i, arg |-> j]}

CountGate(c, g) == Cardinality({k \in DOMAIN c : c[k].gate = g})

\* the (decomposed gate, qubit) occurrences of the input
DecomposedOccurrences ==
    {<<i, j>> \in (DOMAIN circuit) \X (1..2) :
        circuit[i].gate \in gates_to_decompose /\ j \in DOMAIN circuit[i].qubits}

\* the CNOTs of the input that are not decomposed
KeptCnots == {i \in DOMAIN circuit : circuit[i].gate = "CNOT" /\ "CNOT" \notin gates_to_decompose}

\* the input operations that are neither decomposed nor a RESET
KeptOps == {i \in DOMAIN circuit : circuit[i].gate \notin gates_to_decompose \cup {"RESET"}}

\* C5 as stated: the output has no operation whose gate name is in gates_to_decompose.
C5_Original ==
    pcI = "returned" => \A k \in DOMAIN icm_circuit : icm_circuit[k].gate \notin gates_to_decompose

\* C5, amended: the output has no operation whose gate name is in
\* gates_to_decompose other than the CNOTs the decomposition itself adds; each
\* (decomposed gate, qubit) occurrence is replaced by exactly one CNOT from the
\* current compiled index of the qubit to a new ancilla, so the number of CNOTs
\* added is the number of such occurrences; the other operations keep their order.
C5_Theorem ==
    pcI = "returned" =>
        /\ \A k \in DOMAIN icm_circuit :
              icm_circuit[k].gate \in gates_to_decompose =>
                  (icm_circuit[k].gate = "CNOT" /\ emitted_from[k].arg # 0)
        /\ \A o \in DecomposedOccurrences :
              /\ Cardinality(EmittedFor(o[1], o[2])) = 1
              /\ \A k \in EmittedFor(o[1], o[2]) :
                    /\ icm_circuit[k].gate = "CNOT"
                    /\ icm_circuit[k].qubits[1] = NewestAt(circuit[o[1]].qubits[o[2]], k)
                    /\ icm_circuit[k].qubits[2] >= NQubitsOf(circuit)
                    /\ \A m \in 1..(k - 1) : icm_circuit[k].qubits[2] \notin Range(icm_circuit[m].qubits)
        /\ CountGate(icm_circuit, "CNOT")
              = Cardinality(KeptCnots) + Cardinality(DecomposedOccurrences)
        /\ \A i \in KeptOps :
              /\ Cardinality(EmittedFor(i, 0)) = 1
              /\ \A k \in EmittedFor(i, 0) : icm_circuit[k].gate = circuit[i].gate
        /\ \A k \in DOMAIN icm_circuit :
              \/ emitted_from[k].op \in KeptOps /\ emitted_from[k].arg = 0
              \/ <<emitted_from[k].op, emitted_from[k].arg>> \in DecomposedOccurrences
        /\ \A k \in DOMAIN icm_circuit, m \in DOMAIN icm_circuit :
              k < m => emitted_from[k].op <= emitted_from[m].op

\* a T and a T_Dagger were each replaced by a CNOT and an H was kept between them
C5_Witness ==
    /\ pcI = "returned"
    /\ \E i \in DOMAIN circuit : circuit[i].gate = "T_Dagger" /\ "T_Dagger" \in gates_to_decompose
    /\ \E i \in KeptOps : circuit[i].gate = "CNOT"
    /\ Len(icm_circuit) = 2

\* C6: called without gates_to_decompose, get_icm replaces only T and
\* T_Dagger; every other gate (RZ included) is emitted unchanged on the remapped qubits.
C6_Claim ==
    (defaulted /\ pcI = "returned") =>
        \A i \in DOMAIN circuit :
            circuit[i].gate \notin {"T", "T_Dagger", "RESET"} =>
                \E k \in EmittedFor(i, 0) : icm_circuit[k].gate = circuit[i].gate

\* C9: the k-th allocated ancilla has index circuit.n_qubits + k - 1, which is
\* greater than every index used by an operation emitted before it, and no two
\* original qubits map to the same compiled index.
C9_Theorem ==
    pcI # "idle" =>
        /\ \A k \in DOMAIN remaps :
              /\ remaps[k].new = NQubitsOf(circuit) + k - 1
              /\ \A m \in 1..remaps[k].before :
                    \A q \in Range(icm_circuit[m].qubits) : q < remaps[k].new
        /\ \A a \in DOMAIN compiled_qubit_index, b \in DOMAIN compiled_qubit_index :
              a # b => compiled_qubit_index[a] # compiled_qubit_index[b]

\* two ancillas were allocated, one by a RESET and one by a decomposed gate,
\* after an operation had been emitted
C9_Witness ==
    /\ Len(remaps) = 2
    /\ \E k \in DOMAIN remaps : remaps[k].at = remaps[k].before /\ remaps[k].before > 0
    /\ \E k \in DOMAIN remaps : remaps[k].at > remaps[k].before

\* C10: once an original qubit has been remapped, every later operation that
\* names it acts on its newest compiled index, and no operation emitted after
\* the remap acts on a compiled index the qubit held before.
C10_Theorem ==
    pcI # "idle" =>
        /\ \A k \in DOMAIN icm_circuit :
              LET e == emitted_from[k]
                  inop == circuit[e.op]
              IN  IF e.arg = 0
                  THEN \A j \in DOMAIN inop.qubits :
                           icm_circuit[k].qubits[j] = NewestAt(inop.qubits[j], k)
                  ELSE icm_circuit[k].qubits[1] = NewestAt(inop.qubits[e.arg], k)
        /\ \A r \in DOMAIN remaps, k \in DOMAIN icm_circuit :
              k > remaps[r].at => remaps[r].old \notin Range(icm_circuit[k].qubits)

\* a qubit remapped by a RESET was later named by a decomposed gate, whose CNOT
\* has the RESET's ancilla as its control
C10_Witness ==
    /\ pcI = "returned"
    /\ Len(remaps) = 2
    /\ remaps[1].at = remaps[1].before
    /\ remaps[2].qubit = remaps[1].qubit
    /\ icm_circuit[Len(icm_circuit)].qubits[1] = remaps[1].new

(***************************************************************************)
(* get_target_tableau                                                      *)
(***************************************************************************)
TargetOneQubitGates == {"I", "X", "Y", "Z", "S", "S_Dagger", "SX", "SX_Dagger", "H", "T", "RZ"}
TargetTwoQubitGates == {"CNOT", "CZ"}

TargetOps ==
    {Op(g, <<q>>) : g \in TargetOneQubitGates, q \in Qubits}
        \cup {Op(g, <<p[1], p[2]>>) :
                g \in TargetTwoQubitGates, p \in {x \in Qubits \X Qubits : x[1] # x[2]}}

\* lines 185-206: the simulator method of a gate name, "ValueError" for the else branch
\* (variant: S and S_Dagger exchanged)
SimMethodDaggerSwapped(g) ==
    IF g = "X" THEN "x"
    ELSE IF g = "Y" THEN "y"
    ELSE IF g = "Z" THEN "z"
    ELSE IF g = "CNOT" THEN "cx"
    ELSE IF g = "S_Dagger" THEN "s"
    ELSE IF g = "S" THEN "s_dag"
    ELSE IF g = "SX" THEN "sqrt_x"
    ELSE IF g = "SX_Dagger" THEN "sqrt_x_dag"
    ELSE IF g = "H" THEN "h"
    ELSE IF g = "CZ" THEN "cz"
    ELSE "ValueError"
SimMethod(g) ==
    IF g = "X" THEN "x"
    ELSE IF g = "Y" THEN "y"
    ELSE IF g = "Z" THEN "z"
    ELSE IF g = "CNOT" THEN "cx"
    ELSE IF g = "S_Dagger" THEN "s_dag"
    ELSE IF g = "S" THEN "s"
    ELSE IF g = "SX" THEN "sqrt_x"
    ELSE IF g = "SX_Dagger" THEN "sqrt_x_dag"
    ELSE IF g = "H" THEN "h"
    ELSE IF g = "CZ" THEN "cz"
    ELSE "ValueError"

InitG ==
    /\ circuit \in SeqsUpTo(TargetOps, MaxOps)
    /\ opi = 1
    /\ sim = <<>>          \* line 181
    /\ pcG = "loop"

\* lines 183-184
SkipIdentity ==
    /\ pcG = "loop" /\ opi <= Len(circuit)
    /\ circuit[opi].gate = "I"
    /\ opi' = opi + 1
    /\ UNCHANGED <<circuit, sim, pcG>>
    /\ UNCHANGED othersG

\* lines 185-204
ApplyGate ==
    /\ pcG = "loop" /\ opi <= Len(circuit)
    /\ circuit[opi].gate # "I"
    /\ SimMethod(circuit[opi].gate) # "ValueError"
    /\ sim' = Append(sim, [method |-> SimMethod(circuit[opi].gate), qubits |-> circuit[opi].qubits])
    /\ opi' = opi + 1
    /\ UNCHANGED <<circuit, pcG>>
    /\ UNCHANGED othersG

\* lines 205-206
RaiseUnsupported ==
    /\ pcG = "loop" /\ opi <= Len(circuit)
    /\ circuit[opi].gate # "I"
    /\ SimMethod(circuit[opi].gate) = "ValueError"
    /\ pcG' = "ValueError"
    /\ UNCHANGED <<circuit, opi, sim>>
    /\ UNCHANGED othersG

\* line 207
ReturnTableau ==
    /\ pcG = "loop" /\ opi > Len(circuit)
    /\ pcG' = "returned"
    /\ UNCHANGED <<circuit, opi, sim>>
    /\ UNCHANGED othersG

NextG ==
    \/ SkipIdentity
    \/ ApplyGate
    \/ RaiseUnsupported
    \/ ReturnTableau

InitTarget == InitG /\ IdleE /\ IdleC /\ IdleT /\ IdleI /\ IdleV /\ IdleD

SpecTarget ==
    InitTarget /\ [][NextG]_vars

\* the simulator gate of each supported gate name
SimulatorGate ==
    [g \in {"X", "Y", "Z", "CNOT", "S", "S_Dagger", "SX", "SX_Dagger", "H", "CZ"} |->
        CASE g = "X" -> "x" [] g = "Y" -> "y" [] g = "Z" -> "z" [] g = "CNOT" -> "cx"
          [] g = "S" -> "s" [] g = "S_Dagger" -> "s_dag" [] g = "SX" -> "sqrt_x"
          [] g = "SX_Dagger" -> "sqrt_x_dag" [] g = "H" -> "h" [] g = "CZ" -> "cz"]

\* the simulator gates of the first n operations: none for I, one for each other operation
RECURSIVE GatesOfPrefix(_)
GatesOfPrefix(n) ==
    IF n = 0 THEN <<>>
    ELSE IF circuit[n].gate = "I" THEN GatesOfPrefix(n - 1)
    ELSE Append(GatesOfPrefix(n - 1),
                [method |-> SimulatorGate[circuit[n].gate], qubits |-> circuit[n].qubits])

\* C8: the operations are processed in order; each is skipped (I), applied as
\* its one simulator gate on its qubits, or raises ValueError (any other name);
\* after the ValueError no later operation is applied and nothing is returned.
C8_Theorem ==
    pcG # "idle" =>
        /\ \A i \in 1..(opi - 1) : circuit[i].gate \in {"I"} \cup DOMAIN SimulatorGate
        /\ sim = GatesOfPrefix(opi - 1)
        /\ pcG = "ValueError" =>
              (opi <= Len(circuit) /\ circuit[opi].gate \notin {"I"} \cup DOMAIN SimulatorGate)
        /\ pcG = "returned" => opi = Len(circuit) + 1

\* an S_Dagger was applied, then an unsupported gate raised
C8_Witness ==
    /\ pcG = "ValueError" /\ opi = 2
    /\ circuit[1].gate = "S_Dagger" /\ Len(sim) = 1

(***************************************************************************)
(* get_stabilizer_tableau_from_vertices                                    *)
(***************************************************************************)
\* vertex[0]: the codes tried, 1..6 and one code outside them
VertexCodes == {1, 2, 3, 4, 5, 6, 7}

\* vertex[1]: the neighbour lists tried for n vertices: none, one vertex, or all of them
AdjChoices(n) == {{}} \cup {{j} : j \in 0..(n - 1)} \cup {0..(n - 1)}

VertexLists(n) == [1..n -> [code : VertexCodes, adj : AdjChoices(n)]]

\* line 213: np.identity(n_qubits, dtype=bool)
IdentityMatrix(n) == [i \in 1..n |-> [j \in 1..n |-> i = j]]

\* lines 214-219: entry [a, b] is set when a lists b or b lists a
ZMatrix(vs) ==
    [a \in 1..Len(vs) |-> [b \in 1..Len(vs) |->
        \E vertex_id \in 1..Len(vs) : \E neighbor \in vs[vertex_id].adj :
            \/ a = neighbor + 1 /\ b = vertex_id
            \/ a = vertex_id /\ b = neighbor + 1]]

\* lines 232-244: what one pass of the loop adds to cliffords, one "if" after another
\* (variant: the sequences of codes 5 and 6 exchanged)
CliffordEntriesSwapped(code) ==
    LET pauli_perm_class == code - 1
    IN  (IF pauli_perm_class = 0 THEN <<<<>>>> ELSE <<>>)
        \o (IF pauli_perm_class = 1 THEN <<<<"s">>>> ELSE <<>>)
        \o (IF pauli_perm_class = 2 THEN <<<<"h">>>> ELSE <<>>)
        \o (IF pauli_perm_class = 3 THEN <<<<"h", "s", "h">>>> ELSE <<>>)
        \o (IF pauli_perm_class = 4 THEN <<<<"h", "s">>>> ELSE <<>>)
        \o (IF pauli_perm_class = 5 THEN <<<<"s", "h">>>> ELSE <<>>)
CliffordEntries(code) ==
    LET pauli_perm_class == code - 1
    IN  (IF pauli_perm_class = 0 THEN <<<<>>>> ELSE <<>>)
        \o (IF pauli_perm_class = 1 THEN <<<<"s">>>> ELSE <<>>)
        \o (IF pauli_perm_class = 2 THEN <<<<"h">>>> ELSE <<>>)
        \o (IF pauli_perm_class = 3 THEN <<<<"h", "s", "h">>>> ELSE <<>>)
        \o (IF pauli_perm_class = 4 THEN <<<<"s", "h">>>> ELSE <<>>)
        \o (IF pauli_perm_class = 5 THEN <<<<"h", "s">>>> ELSE <<>>)

\* lines 229-244: the loop over the vertices, from vertex k on
RECURSIVE CliffordsFrom(_, _)
CliffordsFrom(vs, k) ==
    IF k > Len(vs) THEN <<>>
    ELSE CliffordEntries(vs[k].code) \o CliffordsFrom(vs, k + 1)

\* lines 248-252: the gates of one Clifford sequence on qubit i (0-based)
GatesOn(seq, i) == [c \in DOMAIN seq |-> [method |-> seq[c], qubit |-> i]]

\* lines 247-252: the loop over range(n_qubits), from qubit i (0-based) on; it
\* stops with an IndexError at the first qubit that cliffords has no entry for
RECURSIVE ApplyFrom(_, _, _)
ApplyFrom(cl, n_qubits, i) ==
    IF i >= n_qubits THEN [gates |-> <<>>, error |-> FALSE]
    ELSE IF i + 1 > Len(cl) THEN [gates |-> <<>>, error |-> TRUE]
    ELSE LET rest == ApplyFrom(cl, n_qubits, i + 1)
         IN  [gates |-> GatesOn(cl[i + 1], i) \o rest.gates, error |-> rest.error]

InitV ==
    /\ \E n \in 0..MaxVertices : vertices \in VertexLists(n)
    /\ all_xs = <<>> /\ all_zs = <<>> /\ cliffords = <<>> /\ vsim = <<>>
    /\ pcV = "start"

\* lines 211-227: the matrices, the Pauli strings and the simulator's tableau
BuildStabilizers ==
    /\ pcV = "start"
    /\ all_xs' = IdentityMatrix(Len(vertices))
    /\ all_zs' = ZMatrix(vertices)
    /\ pcV' = "cliffords"
    /\ UNCHANGED <<vertices, cliffords, vsim>>
    /\ UNCHANGED othersV

\* lines 229-244
BuildCliffords ==
    /\ pcV = "cliffords"
    /\ cliffords' = CliffordsFrom(vertices, 1)
    /\ pcV' = "apply"
    /\ UNCHANGED <<vertices, all_xs, all_zs, vsim>>
    /\ UNCHANGED othersV

\* lines 246-252
ApplyCliffords ==
    /\ pcV = "apply"
    /\ LET done == ApplyFrom(cliffords, Len(vertices), 0)
       IN  /\ vsim' = done.gates
           /\ pcV' = IF done.error THEN "IndexError" ELSE "tableau"
    /\ UNCHANGED <<vertices, all_xs, all_zs, cliffords>>
    /\ UNCHANGED othersV

\* line 254
ReturnVertexTableau ==
    /\ pcV = "tableau"
    /\ pcV' = "returned"
    /\ UNCHANGED <<vertices, all_xs, all_zs, cliffords, vsim>>
    /\ UNCHANGED othersV

NextV ==
    \/ BuildStabilizers
    \/ BuildCliffords
    \/ ApplyCliffords
    \/ ReturnVertexTableau

InitVertices == InitV /\ IdleE /\ IdleC /\ IdleT /\ IdleI /\ IdleG /\ IdleD /\ IdleCircuit

SpecVertices ==
    InitVertices /\ [][NextV]_vars

\* the Clifford sequence of each code
SequenceOfCode ==
    [code \in 1..6 |->
        CASE code = 1 -> <<>> [] code = 2 -> <<"s">> [] code = 3 -> <<"h">>
          [] code = 4 -> <<"h", "s", "h">> [] code = 5 -> <<"s", "h">>
          [] code = 6 -> <<"h", "s">>]

VertexIds == 1..Len(vertices)

AllCodesInRange == \A i \in VertexIds : vertices[i].code \in 1..6

\* the methods applied to qubit q (0-based), in order
RECURSIVE MethodsOn(_, _)
MethodsOn(log, q) ==
    IF log = <<>> THEN <<>>
    ELSE IF log[1].qubit = q THEN <<log[1].method>> \o MethodsOn(Tail(log), q)
    ELSE MethodsOn(Tail(log), q)

\* X is the identity matrix and Z is symmetric
MatricesWellFormed ==
    /\ \A i \in VertexIds, j \in VertexIds : all_xs[i][j] = (i = j)
    /\ \A i \in VertexIds, j \in VertexIds : all_zs[i][j] = all_zs[j][i]

\* for codes in 1..6: one Clifford sequence per vertex, in vertex order, and
\* qubit i is given exactly the sequence of vertex i's code
CliffordsFollowCodes ==
    AllCodesInRange =>
        /\ pcV # "IndexError"
        /\ pcV \in {"apply", "tableau", "returned"} =>
              /\ Len(cliffords) = Len(vertices)
              /\ \A i \in VertexIds : cliffords[i] = SequenceOfCode[vertices[i].code]
        /\ pcV \in {"tableau", "returned"} =>
              \A i \in VertexIds : MethodsOn(vsim, i - 1) = SequenceOfCode[vertices[i].code]

\* C11 as stated: the stabilizer of vertex i has Z on exactly its listed neighbours.
C11_Original ==
    pcV \notin {"idle", "start"} =>
        /\ MatricesWellFormed
        /\ \A i \in VertexIds, j \in VertexIds : all_zs[i][j] = ((j - 1) \in vertices[i].adj)
        /\ CliffordsFollowCodes

\* C11, amended: X is the identity and Z is symmetric; the stabilizer of vertex
\* i has Z on exactly the vertices that it lists or that list it; for codes in
\* 1..6 the list of Clifford sequences has one entry per vertex, in vertex
\* order, and qubit i is given exactly the sequence of vertex i's own code.
C11_Theorem ==
    pcV \notin {"idle", "start"} =>
        /\ MatricesWellFormed
        /\ \A i \in VertexIds, j \in VertexIds :
              all_zs[i][j] = ((j - 1) \in vertices[i].adj \/ (i - 1) \in vertices[j].adj)
        /\ CliffordsFollowCodes

\* two vertices, only the first listing the other, the second with code 4:
\* Z is set both ways and qubit 1 is given h, s, h
C11_Witness ==
    /\ pcV = "returned" /\ Len(vertices) = 2
    /\ vertices[1].adj = {1} /\ vertices[2].adj = {}
    /\ all_zs[2][1]
    /\ vertices[1].code = 6 /\ vertices[2].code = 4
    /\ MethodsOn(vsim, 1) = <<"h", "s", "h">>

(***************************************************************************)
(* _bool_dot on arrays of any length                                       *)
(***************************************************************************)
BoolArrays(n) == [1..n -> BOOLEAN]

\* _bool_dot.  For empty arrays line 316 reads array_and[0] of an empty array:
\* compiled by numba without bounds checking the read yields whatever the
\* memory holds, with bounds checking (or uncompiled) it raises IndexError.
BoolDotOutcomes(x, y) ==
    IF Len(x) = 0
    THEN {[outcome |-> "returned", ans |-> b] : b \in BOOLEAN}
             \cup {[outcome |-> "IndexError", ans |-> FALSE]}
    ELSE {[outcome |-> "returned", ans |-> BoolDot(x, y)]}

InitD ==
    /\ \E n \in 0..MaxDotLen : dot_x \in BoolArrays(n) /\ dot_y \in BoolArrays(n)
    /\ dotOutcome = "none" /\ dotResult = FALSE
    /\ pcD = "input"

\* lines 314-319
CallBoolDot ==
    /\ pcD = "input"
    /\ \E o \in BoolDotOutcomes(dot_x, dot_y) :
          dotOutcome' = o.outcome /\ dotResult' = o.ans
    /\ pcD' = "done"
    /\ UNCHANGED <<dot_x, dot_y>>
    /\ UNCHANGED othersD

NextD ==
    \/ CallBoolDot

InitBoolDot == InitD /\ IdleE /\ IdleC /\ IdleT /\ IdleI /\ IdleG /\ IdleV /\ IdleCircuit

SpecBoolDot ==
    InitBoolDot /\ [][NextD]_vars

\* the number of positions where both arrays are True
BothTrue == Cardinality({i \in DOMAIN dot_x : dot_x[i] /\ dot_y[i]})

\* C12: for two boolean arrays of equal length, lengths 0 and 1 included,
\* _bool_dot returns True exactly when the number of positions where both
\* are True is odd.
C12_Claim ==
    pcD = "done" =>
        /\ dotOutcome = "returned"
        /\ dotResult = (BothTrue % 2 = 1)

====
